---- MODULE Spec2Model ----
(***************************************************************************)
(* Model of geomt/linear2d.pyx: the class lin2 (canonical parametrization  *)
(* of non-singular 2D linear maps by scale, rotation angle and shear       *)
(* angle), its lazily computed cache, matrix conversion, composition and   *)
(* closed-form inversion, and the helpers feq and radian_range.            *)
(*                                                                         *)
(* Numbers.  The source computes in C doubles.  The model computes in      *)
(* exact arithmetic on the values the operations produce from rational     *)
(* scales and angles whose sine and cosine are rational:                   *)
(*   - a real is  s * sqrt(n/d)  with s in {-1,0,1} and n/d in lowest      *)
(*     terms (hypot of rationals is such a number);                        *)
(*   - an angle is  alpha + m*pi  where alpha in [0,pi) is the direction   *)
(*     of the primitive integer vector (x,y) (y > 0, or y = 0 and x = 1)   *)
(*     and m is an integer number of half turns.                           *)
(* sin, cos, hypot, atan2 and the sums of angles are exact on these.       *)
(***************************************************************************)
EXTENDS Integers, Naturals, Sequences, FiniteSets, TLC

\* ------------------------------------------------------------------ bounds
MaxScale == 2      \* scale components given to the setters: 1..MaxScale
MaxTurns == 1      \* angles given to the setters lie in [-(MaxTurns+1)*pi, (MaxTurns+1)*pi)
MaxHalfTurns == 3  \* inputs of the radian_range loop lie in [-(MaxHalfTurns+1)*pi, (MaxHalfTurns+1)*pi)
MaxIter == 6       \* cap of the iteration counter of the radian_range loop

\* ------------------------------------------------------- integer helpers
Abs(i) == IF i < 0 THEN -i ELSE i

Sgn(i) == IF i < 0 THEN -1 ELSE IF i = 0 THEN 0 ELSE 1

RECURSIVE Gcd(_, _)
Gcd(i, j) == IF j = 0 THEN Abs(i) ELSE Gcd(j, i % j)

\* Newton's iteration for the integer part of the square root of n >= 1
RECURSIVE RootFrom(_, _)
RootFrom(k, n) ==
    LET j == (k + n \div k) \div 2
    IN  IF j >= k THEN k ELSE RootFrom(j, n)

\* the square root of a perfect square (of nothing else)
ISqrt(n) == IF n = 0 THEN 0 ELSE CHOOSE k \in {RootFrom(n, n)} : k * k = n

\* (-1)^m
Parity(m) == IF m % 2 = 0 THEN 1 ELSE -1

\* ------------------------------------------------------------------ reals
\* s * sqrt(n/d)
Real(s, n, d) ==
    IF s = 0 \/ n = 0 THEN [s |-> 0, n |-> 0, d |-> 1]
    ELSE LET g == Gcd(n, d) IN [s |-> s, n |-> n \div g, d |-> d \div g]

Zero == Real(0, 0, 1)

One == Real(1, 1, 1)

\* the rational p/q (q > 0) as a real
Rat(p, q) == Real(Sgn(p), p * p, q * q)

RMul(a, b) ==
    IF a.s = 0 \/ b.s = 0 THEN Zero
    ELSE LET g1 == Gcd(a.n, b.d)
             g2 == Gcd(b.n, a.d)
         IN  Real(a.s * b.s, (a.n \div g1) * (b.n \div g2),
                             (a.d \div g2) * (b.d \div g1))

RInv(a) == [s |-> a.s, n |-> a.d, d |-> a.n]

RDiv(a, b) == RMul(a, RInv(b))

RNeg(a) == [a EXCEPT !.s = -a.s]

\* a + b for commensurable a, b (b/a rational), which the entries of the
\* matrices of this module are
RAdd(a, b) ==
    IF a.s = 0 THEN b
    ELSE IF b.s = 0 THEN a
    ELSE LET q  == RDiv(b, a)
             p  == q.s * ISqrt(q.n)
             w  == ISqrt(q.d)
         IN  RMul(a, Rat(w + p, w))

RPos(a) == a.s > 0

\* ----------------------------------------------------------------- angles
Ang(x, y, m) == [x |-> x, y |-> y, m |-> m]

AZero == Ang(1, 0, 0)

\* the angle of the direction (vx,vy) # (0,0) plus m half turns
Dir(vx, vy, m) ==
    LET g == Gcd(Abs(vx), Abs(vy))
        x == vx \div g
        y == vy \div g
    IN  IF y > 0 \/ (y = 0 /\ x > 0) THEN Ang(x, y, m) ELSE Ang(-x, -y, m + 1)

AAdd(a, b) == Dir(a.x * b.x - a.y * b.y, a.x * b.y + a.y * b.x, a.m + b.m)

ANeg(a) == IF a.y = 0 THEN Ang(1, 0, -a.m) ELSE Ang(-a.x, a.y, -a.m - 1)

ASub(a, b) == AAdd(a, ANeg(b))

\* M_PI, M_PI_2
M_PI == Ang(1, 0, 1)

M_PI_2 == Ang(0, 1, 0)

cos(a) == Real(Parity(a.m) * Sgn(a.x), a.x * a.x, a.x * a.x + a.y * a.y)

sin(a) == Real(Parity(a.m) * Sgn(a.y), a.y * a.y, a.x * a.x + a.y * a.y)

\* a < b for angles
ALess(a, b) ==
    \/ a.m < b.m
    \/ a.m = b.m /\ a.x * b.y - a.y * b.x > 0

hypot(a, b) ==
    LET g == Gcd(a.d, b.d)
    IN  Real(1, a.n * (b.d \div g) + b.n * (a.d \div g), (a.d \div g) * b.d)

\* atan2(y, x).  C's atan2 returns +pi for (+0, x < 0) and -pi for
\* (-0, x < 0).  A zero y of the model stands for the residue of a product
\* with sin(k*pi), which in double arithmetic is a tiny number or a signed
\* zero of either sign: both results are admitted on that cut.
atan2(y, x) ==
    IF y.s = 0
    THEN IF x.s >= 0 THEN {AZero} ELSE {Ang(1, 0, 1), Ang(1, 0, -1)}
    ELSE IF x.s = 0 THEN {Dir(0, y.s, 0)}
    ELSE LET q  == RDiv(y, x)
             vy == y.s * ISqrt(q.n)
             vx == x.s * ISqrt(q.d)
         IN  {IF vy > 0 THEN Dir(vx, vy, 0) ELSE Dir(-vx, -vy, -1)}

\* eps of feq: 1e-06 = 1/EpsInv
EpsInv == 1000000

\* feq(a, b) on angles: |a - b| < eps.  For the difference alpha + m*pi
\* this is alpha < eps (m = 0) or pi - alpha < eps (m = -1), and an angle
\* t in [0, pi/2) is below eps when tan(t) = y/|x| is below 1/EpsInv.
feq(a, b) ==
    LET e == ASub(a, b)
    IN  \/ e.m = 0  /\ e.x > 0 /\ e.y <= (e.x - 1) \div EpsInv
        \/ e.m = -1 /\ e.x < 0 /\ e.y <= (-e.x - 1) \div EpsInv

\* radian_range: the two loops, one step of pi at a time
RECURSIVE LoopDown(_)
LoopDown(rad) == IF ~ALess(rad, M_PI) THEN LoopDown(ASub(rad, M_PI)) ELSE rad

RECURSIVE LoopUp(_)
LoopUp(rad) == IF ALess(rad, ANeg(M_PI)) THEN LoopUp(AAdd(rad, M_PI)) ELSE rad

radian_range(rad) == LoopUp(LoopDown(rad))

\* ---------------------------------------------------------------- objects
\* a lin2 object as tp_new leaves it: every C field zero
Blank ==
    [m_sx |-> Zero, m_sy |-> Zero, m_r |-> AZero, m_h |-> AZero,
     m_dirty |-> FALSE,
     m_lx |-> Zero, m_ly |-> Zero, m_qx |-> AZero, m_qy |-> AZero]

Ok(o) == [err |-> "none", obj |-> o]

Raise(e, o) == [err |-> e, obj |-> o]

\* scale.setter that stores the first component before it looks at the second
SetScale_PartialUpdate(o, scale) ==
    IF Len(scale) # 2 THEN Raise("ValueError", o)
    ELSE IF ~RPos(scale[1]) THEN Raise("ValueError", o)
    ELSE IF ~RPos(scale[2]) THEN Raise("ValueError", [o EXCEPT !.m_sx = scale[1]])
    ELSE Ok([o EXCEPT !.m_sx = scale[1], !.m_sy = scale[2], !.m_dirty = TRUE])

\* scale.setter; scale is a sequence of reals
SetScale(o, scale) ==
    IF Len(scale) # 2 THEN Raise("ValueError", o)
    ELSE IF ~RPos(scale[1]) THEN Raise("ValueError", o)
    ELSE IF ~RPos(scale[2]) THEN Raise("ValueError", o)
    ELSE Ok([o EXCEPT !.m_sx = scale[1], !.m_sy = scale[2], !.m_dirty = TRUE])

\* angle.setter that forgets the dirty flag
SetAngle_NoDirty(o, angle) ==
    Ok([o EXCEPT !.m_r = radian_range(angle)])

\* angle.setter
SetAngle(o, angle) ==
    Ok([o EXCEPT !.m_r = radian_range(angle), !.m_dirty = TRUE])

\* shear.setter without the test of -pi/2
SetShear_NoNegCheck(o, shear) ==
    LET h == radian_range(shear)
    IN  IF feq(h, M_PI_2) THEN Raise("ValueError", o)
        ELSE Ok([o EXCEPT !.m_h = h, !.m_dirty = TRUE])

\* shear.setter
SetShear(o, shear) ==
    LET h == radian_range(shear)
    IN  IF feq(h, M_PI_2) THEN Raise("ValueError", o)
        ELSE IF feq(h, ANeg(M_PI_2)) THEN Raise("ValueError", o)
        ELSE Ok([o EXCEPT !.m_h = h, !.m_dirty = TRUE])

\* __init__: the three setters in order; the first that raises ends it
New(scale, angle, shear) ==
    LET r1 == SetScale(Blank, scale)
        r2 == SetAngle(r1.obj, angle)
        r3 == SetShear(r2.obj, shear)
    IN  IF r1.err # "none" THEN r1
        ELSE IF r2.err # "none" THEN r2
        ELSE r3

\* matrix: <<a0, a1, a2, a3>> = [[a0, a1], [a2, a3]]
matrix(o) ==
    << RMul(o.m_sx, cos(o.m_r)), RNeg(RMul(o.m_sy, sin(AAdd(o.m_r, o.m_h)))),
       RMul(o.m_sx, sin(o.m_r)), RMul(o.m_sy, cos(AAdd(o.m_r, o.m_h))) >>

\* cleanse: the objects it can leave (one, except on the cut of atan2)
cleanse(o) ==
    IF o.m_dirty
    THEN LET c0 == RMul(o.m_sx, cos(o.m_r))
             s0 == RMul(o.m_sy, sin(AAdd(o.m_r, o.m_h)))
             c1 == RMul(o.m_sy, cos(AAdd(o.m_r, o.m_h)))
             s1 == RMul(o.m_sx, sin(o.m_r))
         IN  { [o EXCEPT !.m_lx = hypot(c0, s0), !.m_qx = qx,
                         !.m_ly = hypot(c1, s1), !.m_qy = qy,
                         !.m_dirty = FALSE] :
               qx \in atan2(s0, c0), qy \in atan2(s1, c1) }
    ELSE {o}

\* from_matrix: the outcomes of lin2(scale=[sx, sy], angle=r, shear=h)
from_matrix(mat) ==
    LET a0 == mat[1]
        a1 == mat[2]
        a2 == mat[3]
        a3 == mat[4]
        sx == hypot(a0, a2)
        sy == hypot(a1, a3)
    IN  UNION { { New(<<sx, sy>>, radian_range(t0), radian_range(ASub(t1, radian_range(t0)))) :
                  t1 \in atan2(a1, a3) } : t0 \in atan2(a2, a0) }

\* __cmul__: pairs of the cleansed self and the outcome
cmul(self, other) ==
    LET b_sx == other.m_sx
        b_sy == other.m_sy
        b_r  == other.m_r
        b_h  == other.m_h
    IN  UNION { { [self |-> s, res |-> f] :
                  f \in from_matrix(<<
                      RMul(RMul(s.m_lx, b_sx), cos(AAdd(s.m_qx, b_r))),
                      RMul(RNeg(RMul(s.m_lx, b_sy)), sin(AAdd(AAdd(s.m_qx, b_r), b_h))),
                      RMul(RMul(s.m_ly, b_sx), sin(AAdd(s.m_qy, b_r))),
                      RMul(RMul(s.m_ly, b_sy), cos(AAdd(AAdd(s.m_qy, b_r), b_h))) >>) } :
                s \in cleanse(self) }

\* __invert__: pairs of the cleansed self and the outcome
invert(self) ==
    { LET inband == ALess(ANeg(M_PI_2), s.m_h) /\ ALess(s.m_h, M_PI_2)
          b_r == IF inband THEN radian_range(ANeg(s.m_qy))
                           ELSE radian_range(ASub(M_PI, s.m_qy))
          b_h == IF inband THEN radian_range(ASub(AAdd(M_PI, s.m_qy), s.m_qx))
                           ELSE radian_range(ASub(s.m_qy, s.m_qx))
          g   == IF inband THEN RInv(cos(ASub(s.m_qx, s.m_qy)))
                           ELSE RNeg(RInv(cos(ASub(s.m_qx, s.m_qy))))
      IN  [self |-> s, res |-> New(<<RDiv(g, s.m_lx), RDiv(g, s.m_ly)>>, b_r, b_h)] :
      s \in cleanse(self) }

\* the names an instance of lin2 answers to (defs and properties of the class)
lin2_attrs ==
    {"cleanse", "from_matrix", "sx", "sy", "scale", "angle", "shear", "matrix",
     "conjugate"}

MatVec(mat, x) ==
    << RAdd(RMul(mat[1], x[1]), RMul(mat[2], x[2])),
       RAdd(RMul(mat[3], x[1]), RMul(mat[4], x[2])) >>

\* __lshift__; x is a sequence (a 1-d array of that length)
lshift(self, x) ==
    IF Len(x) # 2 THEN [err |-> "ValueError", out |-> <<>>]
    ELSE IF "to_matrix" \notin lin2_attrs THEN [err |-> "AttributeError", out |-> <<>>]
    ELSE [err |-> "none", out |-> MatVec(matrix(self), x)]

\* ----------------------------------------------------------------- inputs
\* directions of the angles given to the setters: 0, atan2(3,4), pi/2
AngleDirs == {<<1, 0>>, <<4, 3>>}

ShearDirs == {<<1, 0>>, <<4, 3>>, <<0, 1>>}

Turns == -(MaxTurns + 1) .. MaxTurns

AngleIn == {Ang(d[1], d[2], m) : d \in AngleDirs, m \in 0 .. MaxTurns + 1}

\* angles within eps of +pi/2 and of -pi/2
NearRight == {Ang(1, EpsInv + 1, 0), Ang(-1, EpsInv + 1, -1)}

ShearIn == {Ang(d[1], d[2], m) : d \in ShearDirs, m \in Turns} \cup NearRight

ScaleOk == {<<Rat(k, 1), One>> : k \in 1 .. MaxScale}

ScaleBad == {<<Zero, One>>, <<Rat(2, 1), Rat(-1, 1)>>, <<One>>}

ScaleIn == ScaleOk \cup ScaleBad

\* right operands: lin2(scale, angle, shear) for a few arguments
Others ==
    {New(<<One, Rat(2, 1)>>, r, h).obj :
        r \in {AZero, Ang(3, 4, 0)},
        h \in {AZero, Ang(4, 3, -1)}}

Vecs == {<<One, Rat(2, 1)>>, <<One>>, <<One, Zero, One>>}

\* ------------------------------------------------------------------ state
VARIABLES
    a,        \* the lin2 object the caller holds
    c,        \* the object the last call returned (Blank when none)
    out,      \* the vector the last call returned (<<>> when none)
    err,      \* the exception the last call raised ("none" when it returned)
    op,       \* the last call: its name and its argument
    rr_pc,    \* radian_range as a loop: "idle", "down", "down_body", "up", "up_body", "done"
    rr_in,    \* its argument
    rr_rad,   \* its local rad
    rr_iter   \* loop iterations made, capped at MaxIter

vars == <<a, c, out, err, op, rr_pc, rr_in, rr_rad, rr_iter>>

objvars == <<a, c, out, err, op>>

rrvars == <<rr_pc, rr_in, rr_rad, rr_iter>>

Call(name, arg) == [name |-> name, arg |-> arg]

\* lin2(): scale=(1,1), angle=0, shear=0
Init ==
    /\ a = New(<<One, One>>, AZero, AZero).obj
    /\ c = Blank
    /\ out = <<>>
    /\ err = "none"
    /\ op = Call("init", <<>>)
    /\ rr_pc = "idle"
    /\ rr_in = [ang |-> AZero, big |-> 0]
    /\ rr_rad = [ang |-> AZero, big |-> 0]
    /\ rr_iter = 0

\* a = lin2(scale, angle, shear); when it raises the caller keeps the old a
Construct ==
    \E scale \in {<<One, Rat(2, 1)>>, <<One, Zero>>}, angle \in {AZero, Ang(4, 3, MaxTurns)},
       shear \in {Ang(4, 3, -1), Ang(0, 1, 0)} :
        LET r == New(scale, angle, shear)
        IN  /\ a' = IF r.err = "none" THEN r.obj ELSE a
            /\ err' = r.err
            /\ op' = Call("init", <<scale, angle, shear>>)
            /\ c' = Blank
            /\ out' = <<>>
            /\ UNCHANGED rrvars

\* a.scale = scale
ScaleSetter ==
    \E scale \in ScaleIn :
        LET r == SetScale(a, scale)
        IN  /\ a' = r.obj
            /\ err' = r.err
            /\ op' = Call("scale", scale)
            /\ c' = Blank
            /\ out' = <<>>
            /\ UNCHANGED rrvars

\* a.angle = angle
AngleSetter ==
    \E angle \in AngleIn :
        LET r == SetAngle(a, angle)
        IN  /\ a' = r.obj
            /\ err' = r.err
            /\ op' = Call("angle", angle)
            /\ c' = Blank
            /\ out' = <<>>
            /\ UNCHANGED rrvars

\* a.shear = shear
ShearSetter ==
    \E shear \in ShearIn :
        LET r == SetShear(a, shear)
        IN  /\ a' = r.obj
            /\ err' = r.err
            /\ op' = Call("shear", shear)
            /\ c' = Blank
            /\ out' = <<>>
            /\ UNCHANGED rrvars

\* c = a * other
Mul ==
    \E other \in Others :
        \E r \in cmul(a, other) :
            /\ a' = r.self
            /\ err' = r.res.err
            /\ c' = IF r.res.err = "none" THEN r.res.obj ELSE Blank
            /\ op' = Call("mul", other)
            /\ out' = <<>>
            /\ UNCHANGED rrvars

\* c = ~a
Invert ==
    \E r \in invert(a) :
        /\ a' = r.self
        /\ err' = r.res.err
        /\ c' = IF r.res.err = "none" THEN r.res.obj ELSE Blank
        /\ op' = Call("invert", <<>>)
        /\ out' = <<>>
        /\ UNCHANGED rrvars

\* c = a / a, that is a * (~a)
Truediv ==
    \E i \in invert(a) :
        IF i.res.err # "none"
        THEN /\ a' = i.self
             /\ err' = i.res.err
             /\ c' = Blank
             /\ op' = Call("truediv", <<>>)
             /\ out' = <<>>
             /\ UNCHANGED rrvars
        ELSE \E r \in cmul(i.self, i.res.obj) :
             /\ a' = r.self
             /\ err' = r.res.err
             /\ c' = IF r.res.err = "none" THEN r.res.obj ELSE Blank
             /\ op' = Call("truediv", <<>>)
             /\ out' = <<>>
             /\ UNCHANGED rrvars

\* c = lin2.from_matrix(a.matrix)
FromMatrix ==
    \E r \in from_matrix(matrix(a)) :
        /\ err' = r.err
        /\ c' = IF r.err = "none" THEN r.obj ELSE Blank
        /\ op' = Call("from_matrix", <<>>)
        /\ out' = <<>>
        /\ UNCHANGED <<a, rrvars>>

\* out = a << x
Lshift ==
    \E x \in Vecs :
        LET r == lshift(a, x)
        IN  /\ err' = r.err
            /\ out' = r.out
            /\ op' = Call("lshift", x)
            /\ c' = Blank
            /\ UNCHANGED <<a, rrvars>>

\* out = a >> x, that is (~a) << x
Rshift ==
    \E x \in Vecs :
        \E i \in invert(a) :
            LET r == IF i.res.err # "none" THEN [err |-> i.res.err, out |-> <<>>]
                     ELSE lshift(i.res.obj, x)
            IN  /\ a' = i.self
                /\ err' = r.err
                /\ out' = r.out
                /\ op' = Call("rshift", x)
                /\ c' = Blank
                /\ UNCHANGED rrvars

\* ------------------------------------------------- radian_range as a loop
\* A double is an angle of the model, or (big = 1, -1) a finite double of
\* magnitude 2^55 or more.  Such a double has a spacing of 8 or more, above
\* 2*pi, so that rad - M_PI and rad + M_PI round back to rad.
Dbl(ang, big) == [ang |-> ang, big |-> big]

\* rad > M_PI in place of rad >= M_PI
DGeqPi_Strict(rad) == rad.big = 1 \/ (rad.big = 0 /\ ALess(M_PI, rad.ang))

\* rad >= M_PI
DGeqPi(rad) == rad.big = 1 \/ (rad.big = 0 /\ ~ALess(rad.ang, M_PI))

\* rad < -M_PI
DLessNegPi(rad) == rad.big = -1 \/ (rad.big = 0 /\ ALess(rad.ang, ANeg(M_PI)))

\* rad -= M_PI
DSubPi(rad) == IF rad.big # 0 THEN rad ELSE Dbl(ASub(rad.ang, M_PI), 0)

\* rad += M_PI
DAddPi(rad) == IF rad.big # 0 THEN rad ELSE Dbl(AAdd(rad.ang, M_PI), 0)

RRDirs == {<<1, 0>>, <<4, 3>>, <<0, 1>>, <<-4, 3>>}

RRIn ==
    {Dbl(Ang(d[1], d[2], m), 0) : d \in RRDirs, m \in -(MaxHalfTurns + 1) .. MaxHalfTurns}
    \cup {Dbl(AZero, 1), Dbl(AZero, -1)}

Bump(i) == IF i < MaxIter THEN i + 1 ELSE i

\* radian_range(rad) is called
RRCall ==
    /\ rr_pc \in {"idle", "done"}
    /\ \E rad \in RRIn :
           /\ rr_in' = rad
           /\ rr_rad' = rad
    /\ rr_pc' = "down"
    /\ rr_iter' = 0
    /\ UNCHANGED objvars

\* while rad >= M_PI: the test holds, the body is entered
RRDownTest ==
    /\ rr_pc = "down"
    /\ DGeqPi(rr_rad)
    /\ rr_pc' = "down_body"
    /\ UNCHANGED <<rr_rad, rr_iter, rr_in, objvars>>

\* rad -= M_PI, and back to the test
RRDownStep ==
    /\ rr_pc = "down_body"
    /\ rr_rad' = DSubPi(rr_rad)
    /\ rr_iter' = Bump(rr_iter)
    /\ rr_pc' = "down"
    /\ UNCHANGED <<rr_in, objvars>>

\* the test fails, the second loop is reached
RRDownExit ==
    /\ rr_pc = "down"
    /\ ~DGeqPi(rr_rad)
    /\ rr_pc' = "up"
    /\ UNCHANGED <<rr_rad, rr_iter, rr_in, objvars>>

\* while rad < -M_PI: the test holds, the body is entered
RRUpTest ==
    /\ rr_pc = "up"
    /\ DLessNegPi(rr_rad)
    /\ rr_pc' = "up_body"
    /\ UNCHANGED <<rr_rad, rr_iter, rr_in, objvars>>

\* rad += M_PI, and back to the test
RRUpStep ==
    /\ rr_pc = "up_body"
    /\ rr_rad' = DAddPi(rr_rad)
    /\ rr_iter' = Bump(rr_iter)
    /\ rr_pc' = "up"
    /\ UNCHANGED <<rr_in, objvars>>

\* return rad
RRReturn ==
    /\ rr_pc = "up"
    /\ ~DLessNegPi(rr_rad)
    /\ rr_pc' = "done"
    /\ UNCHANGED <<rr_rad, rr_iter, rr_in, objvars>>

NextRR ==
    \/ RRCall
    \/ RRDownTest
    \/ RRDownStep
    \/ RRDownExit
    \/ RRUpTest
    \/ RRUpStep
    \/ RRReturn

SpecRR == Init /\ [][NextRR]_vars

\* a call that has started keeps running: the loop is straight-line code
FairSpecRR == Init /\ [][NextRR]_vars /\ WF_vars(NextRR)

Next ==
    \/ Construct
    \/ ScaleSetter
    \/ AngleSetter
    \/ ShearSetter
    \/ Mul
    \/ Invert
    \/ Truediv
    \/ FromMatrix
    \/ Lshift
    \/ Rshift

Spec == Init /\ [][Next]_vars

\* ---------------------------------------------------- notions of the claims
Identity == <<One, Zero, Zero, One>>

MatMul(A, B) ==
    << RAdd(RMul(A[1], B[1]), RMul(A[2], B[3])), RAdd(RMul(A[1], B[2]), RMul(A[2], B[4])),
       RAdd(RMul(A[3], B[1]), RMul(A[4], B[3])), RAdd(RMul(A[3], B[2]), RMul(A[4], B[4])) >>

\* |x| >= 1e-6, shown by x^2 = n/d >= 1e-12
AboveEps(x) == x.s # 0 /\ (x.d \div EpsInv) \div EpsInv < x.n

\* |x - y| >= 1e-6 for certain.  With opposite signs |x - y| >= max(|x|, |y|).
\* With the same sign and squares p = x^2, q = y^2:
\* |x - y| = |p - q| / (|x| + |y|) and |x| + |y| <= 1 + (p + q)/2, so
\* |p - q| * 1e6 >= 1 + p + q is enough.
Apart(x, y) ==
    IF x.s # y.s THEN AboveEps(x) \/ AboveEps(y)
    ELSE IF x.s = 0 THEN FALSE
    ELSE Abs(x.n * y.d - y.n * x.d) >
             (x.d * y.d + x.n * y.d + y.n * x.d) \div EpsInv

\* equal within 1e-6 (equal, or not apart for certain)
Near(x, y) == x = y \/ ~Apart(x, y)

MatNear(A, B) == \A i \in 1 .. 4 : Near(A[i], B[i])

\* rad in [-pi, +pi)
InRange(rad) == ~ALess(rad, ANeg(M_PI)) /\ ALess(rad, M_PI)

Valid(o) ==
    /\ RPos(o.m_sx)
    /\ RPos(o.m_sy)
    /\ InRange(o.m_r)
    /\ InRange(o.m_h)
    /\ ~feq(o.m_h, M_PI_2)
    /\ ~feq(o.m_h, ANeg(M_PI_2))

\* the cached quantities of o are the ones its parameters give
Coherent(o) == o \in cleanse([o EXCEPT !.m_dirty = TRUE])

Setters == {"scale", "angle", "shear"}

\* ------------------------------------------------------------------ claims

\* C1: for every valid a, a / a = a * (~a) returns an object whose matrix is
\* the identity matrix within 1e-6.
C1_RoundTripInversion ==
    op.name = "truediv" => err = "none" /\ MatNear(matrix(c), Identity)

\* C2: for all valid a and b, a * b returns an object whose matrix is
\* matrix(a) times matrix(b) within 1e-6.
C2_CompositionIsProduct ==
    op.name = "mul" =>
        err = "none" /\ MatNear(matrix(c), MatMul(matrix(a), matrix(op.arg)))

\* C3: for the matrix M of every valid object, from_matrix(M) returns an
\* object whose matrix is M within 1e-6.
C3_MatrixRoundTrip ==
    op.name = "from_matrix" => err = "none" /\ MatNear(matrix(c), matrix(a))

\* C4: a << x raises exactly when x is not of length 2, and otherwise
\* returns matrix(a) times x.
C4_ApplyReturnsProduct ==
    op.name = "lshift" =>
        IF Len(op.arg) = 2
        THEN err = "none" /\ out = MatVec(matrix(a), op.arg)
        ELSE err = "ValueError"

\* C5: every object held or returned has sx > 0, sy > 0, r and h in
\* [-pi, +pi) and h not within 1e-6 of +pi/2 or -pi/2, whatever calls were
\* made before, failed ones included.
C5_DataInvariant == Valid(a) /\ (c # Blank => Valid(c))

C5_Witness ==
    /\ op.name = "mul"
    /\ err = "none"
    /\ c # Blank
    /\ c.m_h # AZero
    /\ a.m_h # AZero
    /\ a.m_sx # One

\* C6: the scale setter raises exactly when the argument is not a pair or a
\* component is not positive, the shear setter exactly when the
\* canonicalized argument is within 1e-6 of +pi/2 or -pi/2, the angle setter
\* never; a setter that raises leaves every field of the object unchanged.
C6_SetterValidation ==
    [][ /\ op'.name = "scale" =>
              ( err' = "ValueError" <=>
                  ( \/ Len(op'.arg) # 2
                    \/ ~RPos(op'.arg[1])
                    \/ ~RPos(op'.arg[2]) ) )
        /\ op'.name = "shear" =>
              ( err' = "ValueError" <=>
                  ( \/ feq(radian_range(op'.arg), M_PI_2)
                    \/ feq(radian_range(op'.arg), ANeg(M_PI_2)) ) )
        /\ op'.name = "angle" => err' = "none"
        /\ op'.name \in Setters => err' \in {"none", "ValueError"}
        /\ (op'.name \in Setters /\ err' # "none") => a' = a
      ]_vars

C6_Witness ==
    /\ op.name = "shear"
    /\ err = "ValueError"
    /\ op.arg \in NearRight
    /\ ~a.m_dirty
    /\ a.m_h # AZero

\* C7: whenever the dirty flag of an object is false its cached lx, qx, ly,
\* qy are the ones its current sx, sy, r, h give; every setter that returns
\* sets the flag; after a multiplication or an inversion the left operand is
\* clean, so neither reads a stale cache.
C7_CacheCoherence ==
    /\ [](~a.m_dirty => Coherent(a))
    /\ [](op.name \in {"mul", "invert", "truediv", "rshift"} => ~a.m_dirty)
    /\ [][(op'.name \in Setters /\ err' = "none") => a'.m_dirty]_vars

C7_Witness ==
    /\ op.name = "invert"
    /\ ~a.m_dirty
    /\ a.m_r # AZero
    /\ a.m_h # AZero
    /\ a.m_sx # One

\* C8: ~a returns the inverse: with the cached qx, qy of a and the angles
\* r_b, h_b of the result, sin(qy + r_b) = 0, cos(qx + r_b) > 0,
\* sin(qx + r_b + h_b) = 0, cos(qy + r_b + h_b) > 0, and matrix(a) times
\* matrix(~a) is the identity matrix within 1e-6.
C8_InvertIsInverse ==
    op.name = "invert" =>
        /\ err = "none"
        /\ sin(AAdd(a.m_qy, c.m_r)) = Zero
        /\ RPos(cos(AAdd(a.m_qx, c.m_r)))
        /\ sin(AAdd(AAdd(a.m_qx, c.m_r), c.m_h)) = Zero
        /\ RPos(cos(AAdd(AAdd(a.m_qy, c.m_r), c.m_h)))
        /\ MatNear(MatMul(matrix(a), matrix(c)), Identity)

C10_InvertNeverFails ==
    op.name = "invert" =>
        /\ err = "none"
        /\ Valid(c)
        /\ ( (ALess(ANeg(M_PI_2), a.m_h) /\ ALess(a.m_h, M_PI_2))
                <=> RPos(cos(ASub(a.m_qx, a.m_qy))) )

====
